---- MODULE Spec2Model ----
(***************************************************************************)
(* The M3U playlist parser of backend/server.js (parseM3U) as a state      *)
(* machine: one action per loop iteration kind, over documents drawn from   *)
(* bounded families.  A string is a sequence of characters; the fixed      *)
(* multi-character words of the format ("EXTINF:", the attribute keys) are  *)
(* single elements of the alphabet.                                         *)
(*                                                                         *)
(* The route handlers of backend/server.js follow as a second state        *)
(* machine (RelaySpec): one inbound request, the outbound request it       *)
(* dispatches, the upstream's answer and the response written to the       *)
(* caller.  The favorites list of the front end (App.js) is a third         *)
(* (FavSpec).  Each specification holds the other machines' variables       *)
(* still.                                                                   *)
(***************************************************************************)
EXTENDS Naturals, Integers, Sequences, FiniteSets, TLC

VARIABLES input, content, lines, i, current, channels, pc,
          route, req, hpc, outbound, upstream, res, client,
          favorites, stored, loaded, toggles

parserVars == <<input, content, lines, i, current, channels, pc>>

relayVars == <<route, req, hpc, outbound, upstream, res, client>>

favVars == <<favorites, stored, loaded, toggles>>

vars == <<parserVars, relayVars, favVars>>

(***************************************************************************)
(* Bounds of the model.                                                     *)
(***************************************************************************)
MaxLines == 4
MaxClock == 2
MaxTitle == 2
MaxUrl == 2

(***************************************************************************)
(* The alphabet.                                                            *)
(***************************************************************************)
LF == "\n"
CR == "\r"
SP == " "
HASH == "#"
EXTINF == "EXTINF:"
COMMA == ","
QUOTE == "\""

\* '#EXTINF:' of line.startsWith('#EXTINF:')
ExtinfPrefix == <<HASH, EXTINF>>

\* the four attribute keys of the regular expressions
GroupKey == "group-title="
LogoKey == "tvg-logo="
TvgIdKey == "tvg-id="
TvgNameKey == "tvg-name="

Keys == {GroupKey, LogoKey, TvgIdKey, TvgNameKey}

\* what String.prototype.trim strips (of the alphabet)
Whitespace == {SP, CR, LF}

\* what '.' of a regular expression does not match (of the alphabet)
LineTerminators == {LF, CR}

\* current = null
Null == [null |-> TRUE]

\* the default 'Uncategorized'
Uncategorized == <<"Uncategorized">>

(***************************************************************************)
(* String helpers.                                                          *)
(***************************************************************************)
\* s.startsWith(p)
StartsWith(s, p) == Len(s) >= Len(p) /\ SubSeq(s, 1, Len(p)) = p

RECURSIVE TrimLeft(_)
TrimLeft(s) ==
  IF s # <<>> /\ Head(s) \in Whitespace THEN TrimLeft(Tail(s)) ELSE s

RECURSIVE TrimRight(_)
TrimRight(s) ==
  IF s # <<>> /\ s[Len(s)] \in Whitespace
  THEN TrimRight(SubSeq(s, 1, Len(s) - 1))
  ELSE s

\* s.trim()
Trim(s) == TrimRight(TrimLeft(s))

\* content.split('\n'): the pieces between the line feeds, "" gives [""]
RECURSIVE Split(_)
Split(s) ==
  IF \E k \in 1..Len(s) : s[k] = LF
  THEN LET k == CHOOSE k \in 1..Len(s) : s[k] = LF /\ \A j \in 1..(k - 1) : s[j] # LF
       IN <<SubSeq(s, 1, k - 1)>> \o Split(SubSeq(s, k + 1, Len(s)))
  ELSE <<s>>

RECURSIVE MapTrim(_)
MapTrim(ls) == IF ls = <<>> THEN <<>> ELSE <<Trim(Head(ls))>> \o MapTrim(Tail(ls))

RECURSIVE FilterBoolean(_)
FilterBoolean(ls) ==
  IF ls = <<>> THEN <<>>
  ELSE (IF Head(ls) # <<>> THEN <<Head(ls)>> ELSE <<>>) \o FilterBoolean(Tail(ls))

\* the same without .filter(Boolean)
SplitLinesNoFilter(s) == MapTrim(Split(s))

\* the same without .map(l => l.trim())
SplitLinesNoTrim(s) == FilterBoolean(Split(s))

\* content.split('\n').map(l => l.trim()).filter(Boolean)
SplitLines(s) == FilterBoolean(MapTrim(Split(s)))

(***************************************************************************)
(* The regular expressions of the metadata line.                            *)
(***************************************************************************)
Min(S) == CHOOSE m \in S : \A n \in S : m <= n

Max(S) == CHOOSE m \in S : \A n \in S : m >= n

\* the places where /,(.+)$/ can match: a comma followed, up to the end of
\* the line, by at least one character and no line terminator
TitleStarts(line) ==
  {k \in 1..Len(line) :
     /\ line[k] = COMMA
     /\ k < Len(line)
     /\ \A j \in (k + 1)..Len(line) : line[j] \notin LineTerminators}

\* /,([^,]+)/ in place of /,(.+)$/
titleMatchSegment(line) ==
  LET starts == {k \in 1..Len(line) : line[k] = COMMA /\ k < Len(line) /\ line[k + 1] # COMMA}
  IN IF starts = {} THEN Null
     ELSE LET k == Min(starts)
              e == Max({j \in (k + 1)..Len(line) : \A n \in (k + 1)..j : line[n] # COMMA})
          IN [group1 |-> SubSeq(line, k + 1, e)]

\* /,([^,]*.)$/-like: the rightmost place in place of the leftmost
titleMatchLast(line) ==
  IF TitleStarts(line) = {} THEN Null
  ELSE [group1 |-> SubSeq(line, Max(TitleStarts(line)) + 1, Len(line))]

\* line.match(/,(.+)$/): the leftmost match
titleMatch(line) ==
  IF TitleStarts(line) = {} THEN Null
  ELSE [group1 |-> SubSeq(line, Min(TitleStarts(line)) + 1, Len(line))]

\* the places where /key="([^"]*)"/ can match: the key, a quote, and a later quote
AttrStarts(line, key) ==
  {k \in 1..Len(line) :
     /\ line[k] = key
     /\ k < Len(line)
     /\ line[k + 1] = QUOTE
     /\ \E j \in (k + 2)..Len(line) : line[j] = QUOTE}

\* line.match(/key="([^"]*)"/): the leftmost match, up to the next quote
attrMatch(line, key) ==
  IF AttrStarts(line, key) = {} THEN Null
  ELSE LET k == Min(AttrStarts(line, key))
           j == Min({j \in (k + 2)..Len(line) : line[j] = QUOTE})
       IN [group1 |-> SubSeq(line, k + 2, j - 1)]

\* if (m) field = m[1] : the matched group, or the default the record was made with
OrDefault(m, default) == IF m = Null THEN default ELSE m.group1

(***************************************************************************)
(* The loop body of parseM3U.                                               *)
(***************************************************************************)
\* the same with tvg-name read by the tvg-id expression
NewRecordCopiedKey(line, idx, now) ==
  [id |-> now + idx,
   title |-> IF titleMatch(line) = Null THEN <<>> ELSE Trim(titleMatch(line).group1),
   group |-> OrDefault(attrMatch(line, GroupKey), Uncategorized),
   logo |-> OrDefault(attrMatch(line, LogoKey), <<>>),
   url |-> <<>>,
   tvgId |-> OrDefault(attrMatch(line, TvgIdKey), <<>>),
   tvgName |-> OrDefault(attrMatch(line, TvgIdKey), <<>>)]

\* the record a metadata line opens: the defaults, then each match that succeeded
NewRecord(line, idx, now) ==
  [id |-> now + idx,
   title |-> IF titleMatch(line) = Null THEN <<>> ELSE Trim(titleMatch(line).group1),
   group |-> OrDefault(attrMatch(line, GroupKey), Uncategorized),
   logo |-> OrDefault(attrMatch(line, LogoKey), <<>>),
   url |-> <<>>,
   tvgId |-> OrDefault(attrMatch(line, TvgIdKey), <<>>),
   tvgName |-> OrDefault(attrMatch(line, TvgNameKey), <<>>)]

\* if (line.startsWith('#EXTINF:'))
IsExtinf(line) == StartsWith(line, ExtinfPrefix)

\* the same without the test of current
IsUriBranchNoCurrent(cur, line) == ~StartsWith(line, <<HASH>>)

\* the same without the test of '#'
IsUriBranchNoHash(cur, line) == cur # Null

\* else if (current && !line.startsWith('#'))
IsUriBranch(cur, line) == cur # Null /\ ~StartsWith(line, <<HASH>>)

\* the same without current = null
PushKeepOpen(chs, cur, line) ==
  IF cur = Null THEN [threw |-> TRUE, channels |-> chs, current |-> cur]
  ELSE [threw |-> FALSE,
        channels |-> Append(chs, [cur EXCEPT !.url = line]),
        current |-> cur]

\* current.url = line; channels.push(current); current = null
\* (a TypeError when current is null)
Push(chs, cur, line) ==
  IF cur = Null THEN [threw |-> TRUE, channels |-> chs, current |-> cur]
  ELSE [threw |-> FALSE,
        channels |-> Append(chs, [cur EXCEPT !.url = line]),
        current |-> Null]

\* the same, the record left open pushed as it is
OpenFlush(chs, cur, line, idx, now) ==
  [threw |-> FALSE,
   channels |-> IF cur = Null THEN chs ELSE Append(chs, cur),
   current |-> NewRecord(line, idx, now)]

\* current = { id: Date.now() + i, ... }: the open record, if any, is overwritten
Open(chs, cur, line, idx, now) ==
  [threw |-> FALSE, channels |-> chs, current |-> NewRecord(line, idx, now)]

\* one iteration of the for loop on lines[idx], with Date.now() reading now
LoopBody(chs, cur, line, idx, now) ==
  IF IsExtinf(line) THEN Open(chs, cur, line, idx, now)
  ELSE IF IsUriBranch(cur, line) THEN Push(chs, cur, line)
  ELSE [threw |-> FALSE, channels |-> chs, current |-> cur]

\* the whole loop from index idx on, every Date.now() reading now
RECURSIVE Loop(_, _, _, _, _)
Loop(ls, idx, cur, chs, now) ==
  IF idx >= Len(ls) THEN chs
  ELSE LET r == LoopBody(chs, cur, ls[idx + 1], idx, now)
       IN IF r.threw THEN chs ELSE Loop(ls, idx + 1, r.current, r.channels, now)

\* parseM3U(content) under a clock that stands still at now
parseM3U(s, now) == Loop(SplitLines(s), 0, Null, <<>>, now)

(***************************************************************************)
(* The documents the parser is run on.                                      *)
(***************************************************************************)
\* Date.now() readings
Clock == 0..MaxClock

SeqsUpTo(S, n) == UNION {[1..k -> S] : k \in 0..n}

RECURSIVE Join(_, _)
Join(ls, sep) ==
  IF ls = <<>> THEN <<>>
  ELSE IF Len(ls) = 1 THEN Head(ls)
  ELSE Head(ls) \o <<sep>> \o Join(Tail(ls), sep)

\* raw lines of a document: blank, metadata, URI, comment, with and without
\* surrounding whitespace
MetaA == <<HASH, EXTINF, COMMA, "a">>
MetaB == <<HASH, EXTINF, COMMA, "b">>
UriU == <<"u">>
UriV == <<SP, "v", CR>>
Comment == <<HASH, "c">>
Indented == <<SP, HASH, "c">>
Blank == <<SP>>

RawLines == {MetaA, MetaB, UriU, UriV, Comment, Indented, Blank}

\* the value each attribute carries in the generated metadata lines
ValueOf(key) ==
  CASE key = GroupKey -> <<"g", COMMA, SP, "h">>
    [] key = LogoKey -> <<"l">>
    [] key = TvgIdKey -> <<"5">>
    [] key = TvgNameKey -> <<SP, "n">>

Forms == {"quoted", "bare", "unclosed"}

RenderItem(it) ==
  CASE it.form = "quoted" -> <<SP, it.key, QUOTE>> \o ValueOf(it.key) \o <<QUOTE>>
    [] it.form = "bare" -> <<SP, it.key>> \o ValueOf(it.key)
    [] it.form = "unclosed" -> <<SP, it.key, QUOTE>> \o ValueOf(it.key)

RECURSIVE RenderItems(_)
RenderItems(its) ==
  IF its = <<>> THEN <<>> ELSE RenderItem(Head(its)) \o RenderItems(Tail(its))

\* attribute lists: every subset of the keys in every order, each in every form
ItemSeqs ==
  {s \in SeqsUpTo([key : Keys, form : Forms], Cardinality(Keys)) :
     \A m, n \in 1..Len(s) : m # n => s[m].key # s[n].key}

TitleChars == {"a", SP, COMMA, CR}
UrlChars == {"u", SP, HASH}

NoInput == [kind |-> "none", raw |-> <<>>, items |-> <<>>, title |-> <<>>, url |-> <<>>]

LineInputs == {[NoInput EXCEPT !.kind = "lines", !.raw = r] : r \in SeqsUpTo(RawLines, MaxLines)}

AttrInputs == {[NoInput EXCEPT !.kind = "attrs", !.items = s] : s \in ItemSeqs}

TitleInputs ==
  {[NoInput EXCEPT !.kind = "title", !.title = t, !.url = u] :
     t \in SeqsUpTo(TitleChars, MaxTitle), u \in SeqsUpTo(UrlChars, MaxUrl)}

Inputs == LineInputs \cup AttrInputs \cup TitleInputs

\* the metadata line of a generated two-line document
MetaLineOf(in) ==
  CASE in.kind = "attrs" -> ExtinfPrefix \o <<"-1">> \o RenderItems(in.items) \o <<COMMA, "T">>
    [] in.kind = "title" -> ExtinfPrefix \o <<"-1", COMMA>> \o in.title

Render(in) ==
  CASE in.kind = "lines" -> Join(in.raw, LF)
    [] in.kind = "attrs" -> MetaLineOf(in) \o <<LF, "u">>
    [] in.kind = "title" -> MetaLineOf(in) \o <<LF>> \o in.url

(***************************************************************************)
(* The values the route handlers and the favorites list start from.        *)
(***************************************************************************)
\* a field the request does not carry
Undefined == [undefined |-> TRUE]

\* a string value of a request field or a header
Str(s) == [str |-> s]

\* no request has come in
NoRequest == [url |-> Undefined, filename |-> Undefined, file |-> Undefined,
              content |-> Undefined]

\* no outbound request has been dispatched
NoUpstream == [state |-> "none", status |-> 0, contentType |-> Undefined,
               contentLength |-> Undefined, body |-> <<>>, received |-> <<>>,
               flowing |-> FALSE, error |-> <<>>]

\* res before the handler has touched it
NoResponse == [started |-> 0, status |-> 200, headers |-> {}, json |-> Undefined,
               text |-> Undefined, bytes |-> <<>>, state |-> "open", faults |-> 0]

\* the caller, connected, nothing received
Caller == [state |-> "connected", got |-> <<>>, ended |-> FALSE]

RelayIdle ==
  /\ route = "none"
  /\ req = NoRequest
  /\ hpc = "idle"
  /\ outbound = <<>>
  /\ upstream = NoUpstream
  /\ res = NoResponse
  /\ client = Caller

FavIdle ==
  /\ favorites = <<>>
  /\ stored = <<>>
  /\ loaded = <<>>
  /\ toggles = <<>>

(***************************************************************************)
(* parseM3U, one loop iteration per step.                                   *)
(***************************************************************************)
\* before the call
Init ==
  /\ input = NoInput
  /\ content = <<>>
  /\ lines = <<>>
  /\ i = 0
  /\ current = Null
  /\ channels = <<>>
  /\ pc = "idle"
  /\ RelayIdle
  /\ FavIdle

\* parseM3U(content) is called on a document
Call ==
  /\ pc = "idle"
  /\ \E in \in Inputs :
       /\ input' = in
       /\ content' = Render(in)
  /\ pc' = "split"
  /\ UNCHANGED <<lines, i, current, channels>>
  /\ UNCHANGED <<relayVars, favVars>>

\* const lines = ...; const channels = []; let current = null
SplitContent ==
  /\ pc = "split"
  /\ lines' = SplitLines(content)
  /\ i' = 0
  /\ current' = Null
  /\ channels' = <<>>
  /\ pc' = "loop"
  /\ UNCHANGED <<input, content>>
  /\ UNCHANGED <<relayVars, favVars>>

\* the '#EXTINF:' branch: a new record replaces whatever was open
Extinf ==
  /\ pc = "loop"
  /\ i < Len(lines)
  /\ IsExtinf(lines[i + 1])
  /\ \E now \in Clock :
       LET r == LoopBody(channels, current, lines[i + 1], i, now)
       IN /\ channels' = r.channels
          /\ current' = r.current
          /\ pc' = IF r.threw THEN "threw" ELSE pc
  /\ i' = i + 1
  /\ UNCHANGED <<input, content, lines>>
  /\ UNCHANGED <<relayVars, favVars>>

\* the else-if branch: the line closes the open record
UriLine ==
  /\ pc = "loop"
  /\ i < Len(lines)
  /\ ~IsExtinf(lines[i + 1])
  /\ IsUriBranch(current, lines[i + 1])
  /\ LET r == LoopBody(channels, current, lines[i + 1], i, 0)
     IN /\ channels' = r.channels
        /\ current' = r.current
        /\ pc' = IF r.threw THEN "threw" ELSE pc
  /\ i' = i + 1
  /\ UNCHANGED <<input, content, lines>>
  /\ UNCHANGED <<relayVars, favVars>>

\* neither branch: the line is skipped
SkipLine ==
  /\ pc = "loop"
  /\ i < Len(lines)
  /\ ~IsExtinf(lines[i + 1])
  /\ ~IsUriBranch(current, lines[i + 1])
  /\ LET r == LoopBody(channels, current, lines[i + 1], i, 0)
     IN /\ channels' = r.channels
        /\ current' = r.current
        /\ pc' = IF r.threw THEN "threw" ELSE pc
  /\ i' = i + 1
  /\ UNCHANGED <<input, content, lines>>
  /\ UNCHANGED <<relayVars, favVars>>

\* return channels
Return ==
  /\ pc = "loop"
  /\ i >= Len(lines)
  /\ pc' = "done"
  /\ UNCHANGED <<input, content, lines, i, current, channels>>
  /\ UNCHANGED <<relayVars, favVars>>

Next == Call \/ SplitContent \/ Extinf \/ UriLine \/ SkipLine \/ Return

Spec == Init /\ [][Next]_vars

(***************************************************************************)
(* What the claims speak of.                                                *)
(***************************************************************************)
\* a trimmed, non-empty line is a metadata line, a URI line or a comment
IsMetaLine(l) == Len(l) >= 2 /\ l[1] = HASH /\ l[2] = EXTINF

IsUriLine(l) == Len(l) >= 1 /\ l[1] # HASH

\* the metadata lines that are followed by a URI line before the next metadata line
Emitting(ls) ==
  {m \in 1..Len(ls) :
     /\ IsMetaLine(ls[m])
     /\ \E u \in (m + 1)..Len(ls) :
          IsUriLine(ls[u]) /\ \A j \in (m + 1)..(u - 1) : ~IsMetaLine(ls[j])}

\* the first URI line after line m
FirstUriAfter(ls, m) == Min({u \in (m + 1)..Len(ls) : IsUriLine(ls[u])})

\* the k-th smallest element of a set of numbers
Kth(S, k) == CHOOSE m \in S : Cardinality({n \in S : n < m}) = k - 1

\* a record without its id and url
Fields(r) == [title |-> r.title, group |-> r.group, logo |-> r.logo,
              tvgId |-> r.tvgId, tvgName |-> r.tvgName]

\* records with their ids blanked
NoIds(chs) == [k \in 1..Len(chs) |-> [chs[k] EXCEPT !.id = 0]]

\* the title the metadata lines of RawLines carry
TitleOfRaw(l) == IF l = MetaA THEN <<"a">> ELSE <<"b">>

\* a document made only of two-line entries: a line starting with '#EXTINF:'
\* immediately followed by a non-empty line that does not start with '#'
WellFormedVerbatim(raw) ==
  /\ Len(raw) % 2 = 0
  /\ \A k \in 1..(Len(raw) \div 2) :
       /\ StartsWith(raw[2 * k - 1], ExtinfPrefix)
       /\ raw[2 * k] # <<>>
       /\ ~StartsWith(raw[2 * k], <<HASH>>)

\* the same, the second line judged after trimming
WellFormedTrimmed(raw) ==
  /\ Len(raw) % 2 = 0
  /\ \A k \in 1..(Len(raw) \div 2) :
       /\ StartsWith(raw[2 * k - 1], ExtinfPrefix)
       /\ TrimRight(TrimLeft(raw[2 * k])) # <<>>
       /\ ~StartsWith(TrimRight(TrimLeft(raw[2 * k])), <<HASH>>)

\* C1 as stated: for a document of well-formed two-line entries the parser
\* returns one record per entry, in source order, the k-th url being the k-th
\* URI line verbatim.
C1_Verbatim ==
  (pc = "done" /\ input.kind = "lines" /\ WellFormedVerbatim(input.raw)) =>
    /\ Len(channels) = Len(input.raw) \div 2
    /\ \A k \in 1..Len(channels) :
         /\ channels[k].url = input.raw[2 * k]
         /\ channels[k].title = TitleOfRaw(input.raw[2 * k - 1])

\* C1 amended: for a document of two-line entries whose second line, once
\* trimmed, is non-empty and does not start with '#', the parser returns one
\* record per entry, in source order, the k-th url being the k-th URI line
\* with its surrounding whitespace trimmed.
C1_Trimmed ==
  (pc = "done" /\ input.kind = "lines" /\ WellFormedTrimmed(input.raw)) =>
    /\ Len(channels) = Len(input.raw) \div 2
    /\ \A k \in 1..Len(channels) :
         /\ channels[k].url = TrimRight(TrimLeft(input.raw[2 * k]))
         /\ channels[k].title = TitleOfRaw(input.raw[2 * k - 1])

C1_Witness ==
  /\ pc = "done"
  /\ input.kind = "lines"
  /\ input.raw = <<MetaA, UriV, MetaB, UriU>>
  /\ Len(channels) = 2
  /\ channels[1].url = <<"v">>
  /\ channels[2].title = <<"b">>

\* C2: no record of channels ever has the empty string as its url.
C2_NonEmptyUrl == \A k \in 1..Len(channels) : channels[k].url # <<>>

C2_Witness ==
  /\ pc = "done"
  /\ input.kind = "lines"
  /\ input.raw = <<MetaA, Blank, UriU>>
  /\ Len(channels) = 1

\* C3: the parser returns as many records as there are metadata lines followed
\* by a URI line before the next metadata line, and the k-th record carries the
\* fields of the k-th such metadata line, never those of a dropped one.
C3_DanglingDropped ==
  pc = "done" =>
    /\ Len(channels) = Cardinality(Emitting(lines))
    /\ \A k \in 1..Len(channels) :
         k <= Cardinality(Emitting(lines)) =>
           Fields(channels[k]) = Fields(NewRecord(lines[Kth(Emitting(lines), k)], 0, 0))

C3_Witness ==
  /\ pc = "done"
  /\ input.kind = "lines"
  /\ input.raw = <<MetaA, MetaB, UriU, MetaA>>
  /\ Len(channels) = 1
  /\ channels[1].title = <<"b">>

\* a raw line that starts with '#' but not with '#EXTINF:'
IsRawComment(l) == StartsWith(l, <<HASH>>) /\ ~StartsWith(l, ExtinfPrefix)

IsNotRawComment(l) == ~IsRawComment(l)

WithoutComments(raw) == SelectSeq(raw, IsNotRawComment)

\* C4: a step on a comment line changes neither channels nor current, and the
\* records returned for a document equal, ids apart, those returned for the
\* document with all its comment lines removed.
C4_CommentsSkipped ==
  [][/\ (pc = "loop" /\ i < Len(lines) /\ IsRawComment(lines[i + 1])) =>
          (channels' = channels /\ current' = current)
     /\ (pc' = "done" /\ input.kind = "lines") =>
          NoIds(channels') = NoIds(parseM3U(Join(WithoutComments(input.raw), LF), 0))]_vars

C4_Witness ==
  /\ pc = "done"
  /\ input.kind = "lines"
  /\ input.raw = <<Comment, MetaA, Comment, UriU>>
  /\ Len(channels) = 1
  /\ channels[1].url = <<"u">>

\* C5: a step on a non-comment, non-metadata line while no record is open
\* changes neither channels nor current and does not fail; the parser returns
\* at most one record per metadata line, the k-th url being the first URI line
\* after the k-th emitting metadata line.
C5_BareUriIgnored ==
  [][/\ (pc = "loop" /\ i < Len(lines) /\ current = Null /\ IsUriLine(lines[i + 1])) =>
          (channels' = channels /\ current' = Null /\ pc' = "loop")
     /\ pc' = "done" =>
          /\ Len(channels') <= Cardinality({m \in 1..Len(lines) : IsMetaLine(lines[m])})
          /\ Len(channels') <= Cardinality(Emitting(lines))
          /\ \A k \in 1..Len(channels') :
               channels'[k].url = lines[FirstUriAfter(lines, Kth(Emitting(lines), k))]]_vars

C5_Witness ==
  /\ pc = "done"
  /\ input.kind = "lines"
  /\ input.raw = <<UriU, MetaA, UriV, UriU>>
  /\ Len(channels) = 1
  /\ channels[1].url = <<"v">>

\* the commas of a line
Commas(l) == {k \in 1..Len(l) : l[k] = COMMA}

\* everything after the last comma, trimmed; '' without a comma
AfterLastComma(l) ==
  IF Commas(l) = {} THEN <<>>
  ELSE TrimRight(TrimLeft(SubSeq(l, Max(Commas(l)) + 1, Len(l))))

\* everything after the first comma that comes after the last line terminator
\* inside the line and is not the last character, trimmed; '' without one
AfterFirstComma(l) ==
  LET last == Max({0} \cup {k \in 1..Len(l) : l[k] \in LineTerminators})
      after == {k \in Commas(l) : k > last /\ k < Len(l)}
  IN IF after = {} THEN <<>>
     ELSE TrimRight(TrimLeft(SubSeq(l, Min(after) + 1, Len(l))))

\* C6 as stated: the record a metadata line opens has as its title everything
\* after the LAST comma of the line.
C6_LastComma ==
  [][(pc = "loop" /\ i < Len(lines) /\ IsMetaLine(lines[i + 1])) =>
       (current' # Null /\ current'.title = AfterLastComma(lines[i + 1]))]_vars

\* C6 amended: the record a metadata line opens has as its title everything
\* after the FIRST comma of the line, trimmed (with a line terminator such as
\* a carriage return inside the line: after the first comma behind the last
\* one); '' when there is no such comma or nothing follows it.
C6_FirstComma ==
  [][(pc = "loop" /\ i < Len(lines) /\ IsMetaLine(lines[i + 1])) =>
       (current' # Null /\ current'.title = AfterFirstComma(lines[i + 1]))]_vars

C6_Witness ==
  /\ pc = "done"
  /\ input.kind = "attrs"
  /\ input.items = <<[key |-> GroupKey, form |-> "quoted"]>>
  /\ Len(channels) = 1
  /\ channels[1].group = <<"g", COMMA, SP, "h">>
  /\ channels[1].title = <<"h", QUOTE, COMMA, "T">>

\* the field of a record an attribute key fills, and its default
FieldOf(r, key) ==
  CASE key = GroupKey -> r.group
    [] key = LogoKey -> r.logo
    [] key = TvgIdKey -> r.tvgId
    [] key = TvgNameKey -> r.tvgName

DefaultOf(key) == IF key = GroupKey THEN Uncategorized ELSE <<>>

\* the place of a key in an attribute list, 0 when absent
PlaceOf(its, key) ==
  IF \E p \in 1..Len(its) : its[p].key = key
  THEN CHOOSE p \in 1..Len(its) : its[p].key = key
  ELSE 0

\* what follows the item at place p on the generated metadata line
RestAfter(its, p) == RenderItems(SubSeq(its, p + 1, Len(its))) \o <<COMMA, "T">>

\* the part of s before its first quote
BeforeQuote(s) == SubSeq(s, 1, Min({k \in 1..Len(s) : s[k] = QUOTE}) - 1)

HasQuote(s) == \E k \in 1..Len(s) : s[k] = QUOTE

\* C7 as stated: each attribute present in quoted form gives its field its
\* value, each absent or malformed one leaves its field at the default,
\* whatever the other attributes on the line.
C7_Independent ==
  (pc = "done" /\ input.kind = "attrs") =>
    /\ Len(channels) = 1
    /\ \A key \in Keys :
         LET p == PlaceOf(input.items, key)
         IN FieldOf(channels[1], key) =
              IF p # 0 /\ input.items[p].form = "quoted" THEN ValueOf(key)
              ELSE DefaultOf(key)

\* C7 amended: each attribute present in quoted form gives its field its value,
\* each absent attribute, each one without its opening quote and each one with
\* an unclosed quote and no later double quote on the line leaves its field at
\* the default, whatever the other attributes; an attribute with an unclosed
\* quote and a later double quote on the line gives its field the text up to
\* that quote; with tvg-id alone the title is the text after the comma.
C7_IndependentUnlessUnclosed ==
  (pc = "done" /\ input.kind = "attrs") =>
    /\ Len(channels) = 1
    /\ \A key \in Keys :
         LET p == PlaceOf(input.items, key)
         IN FieldOf(channels[1], key) =
              IF p = 0 \/ input.items[p].form = "bare" THEN DefaultOf(key)
              ELSE IF input.items[p].form = "quoted" THEN ValueOf(key)
              ELSE IF HasQuote(RestAfter(input.items, p))
                   THEN ValueOf(key) \o BeforeQuote(RestAfter(input.items, p))
                   ELSE DefaultOf(key)
    /\ input.items = <<[key |-> TvgIdKey, form |-> "quoted"]>> =>
         channels[1].title = <<"T">>

C7_Witness ==
  /\ pc = "done"
  /\ input.kind = "attrs"
  /\ input.items = <<[key |-> TvgNameKey, form |-> "quoted"],
                     [key |-> TvgIdKey, form |-> "unclosed"],
                     [key |-> LogoKey, form |-> "bare"],
                     [key |-> GroupKey, form |-> "quoted"]>>
  /\ Len(channels) = 1
  /\ channels[1].tvgName = <<SP, "n">>
  /\ channels[1].logo = <<>>
  /\ channels[1].group = <<"g", COMMA, SP, "h">>
  /\ channels[1].tvgId = <<"5", SP, LogoKey, "l", SP, GroupKey>>

\* a title the round trip keeps: no whitespace at either end, no line terminator
CleanTitle(t) ==
  /\ t # <<>> => (t[1] \notin Whitespace /\ t[Len(t)] \notin Whitespace)
  /\ \A k \in 1..Len(t) : t[k] \notin LineTerminators

\* a URI the round trip keeps: non-empty, no whitespace at either end, no '#'
\* in front, no line feed
CleanUrl(u) ==
  /\ u # <<>>
  /\ u[1] \notin Whitespace
  /\ u[Len(u)] \notin Whitespace
  /\ u[1] # HASH
  /\ \A k \in 1..Len(u) : u[k] # LF

\* C8 as stated: for every title and URI, the document '#EXTINF:-1,<title>'
\* followed by '<URI>' parses to one record with exactly that title and url.
C8_RoundTrip ==
  (pc = "done" /\ input.kind = "title") =>
    /\ Len(channels) = 1
    /\ channels[1].title = input.title
    /\ channels[1].url = input.url

\* C8 amended: the same for every title without whitespace at either end and
\* without line terminator, and every non-empty URI without whitespace at
\* either end, without line feed and not starting with '#'.
C8_RoundTripClean ==
  (pc = "done" /\ input.kind = "title" /\ CleanTitle(input.title) /\ CleanUrl(input.url)) =>
    /\ Len(channels) = 1
    /\ channels[1].title = input.title
    /\ channels[1].url = input.url

C8_Witness ==
  /\ pc = "done"
  /\ input.kind = "title"
  /\ input.title = <<COMMA, "a">>
  /\ input.url = <<"u", HASH>>
  /\ Len(channels) = 1
  /\ channels[1].title = <<COMMA, "a">>
  /\ channels[1].url = <<"u", HASH>>

\* a document of comment lines only, the empty document included
OnlyComments(raw) == \A k \in 1..Len(raw) : IsRawComment(raw[k])

\* what is left of the call: the lines still to visit, and the return
Measure ==
  CASE pc = "split" -> Len(content) + 3
    [] pc = "loop" -> (Len(lines) - i) + 1
    [] OTHER -> 0

\* C9: on every document no step of the call throws, every step of it brings the
\* return nearer (the call ends after finitely many steps), and for the empty
\* document and the documents of comment lines only the call returns the empty
\* sequence.
C9_NeverFails ==
  [][/\ pc' # "threw"
     /\ pc # "idle" => Measure' < Measure
     /\ i' <= Len(lines')
     /\ (pc' = "done" /\ input.kind = "lines" /\ OnlyComments(input.raw)) =>
          channels' = <<>>]_vars

C9_Witness ==
  /\ pc = "done"
  /\ input.kind = "lines"
  /\ input.raw = <<Comment, Comment, Comment>>
  /\ channels = <<>>

\* C10 as stated: the ids of the records of one call are pairwise distinct,
\* whatever Date.now() returned at the metadata lines.
C10_DistinctIds ==
  \A k, j \in 1..Len(channels) : k # j => channels[k].id # channels[j].id

(***************************************************************************)
(* The route handlers of backend/server.js: what they compute.             *)
(***************************************************************************)
\* chunks of an upstream body
MaxBody == 2

Health == "/api/health"
FetchPlaylist == "/api/m3u/url"
Upload == "/api/m3u/upload"
Text == "/api/m3u/text"
ProxyStream == "/api/proxy/stream"
StreamCheck == "/api/stream/check"
EpgFetch == "/api/epg/fetch"
Download == "/api/download"

Routes == {Health, FetchPlaylist, Upload, Text, ProxyStream, StreamCheck, EpgFetch, Download}

\* responseType: 'stream'
StreamRoutes == {ProxyStream, Download}

\* the routes that call axios
OutboundRoutes == {FetchPlaylist, ProxyStream, StreamCheck, EpgFetch, Download}

\* the routes whose upstream body axios buffers in full before the await returns
BufferedRoutes == {FetchPlaylist, EpgFetch}

\* !v for a field that is undefined or a string
Falsy(v) == v = Undefined \/ v = Str(<<>>)

\* percent-escapes of the alphabet; a lone "%" is a malformed escape
Unescape(c) == CASE c = "%2F" -> "/" [] c = "%0A" -> LF [] OTHER -> c

\* the same, nothing decoded
decodeNothing(s) == [threw |-> FALSE, value |-> s]

\* decodeURIComponent(s): URIError on a malformed escape
decodeURIComponent(s) ==
  [threw |-> \E k \in DOMAIN s : s[k] = "%",
   value |-> [k \in DOMAIN s |-> Unescape(s[k])]]

\* path.basename(s): what follows the last "/", trailing "/" dropped
RECURSIVE basename(_)
basename(s) ==
  IF s = <<>> THEN <<>>
  ELSE IF s[Len(s)] = "/" THEN basename(SubSeq(s, 1, Len(s) - 1))
  ELSE IF \E k \in DOMAIN s : s[k] = "/"
       THEN LET k == CHOOSE k \in DOMAIN s : s[k] = "/" /\ \A j \in (k + 1)..Len(s) : s[j] # "/"
            IN SubSeq(s, k + 1, Len(s))
       ELSE s

\* the same, every route validating nothing
MissingNever(r, q) == FALSE

\* the guard at the head of a handler: the required field is absent
Missing(r, q) ==
  CASE r = Upload -> q.file = Undefined
    [] r = Text -> Falsy(q.content)
    [] r \in {Health, StreamCheck} -> FALSE
    [] OTHER -> Falsy(q.url)

\* the body of the 400 answer
RequiredMessage(r) ==
  CASE r = Upload -> <<"File required">>
    [] r = Text -> <<"Content required">>
    [] r = EpgFetch -> <<"EPG URL required">>
    [] OTHER -> <<"URL required">>

\* the prefix of the 500 answer
ErrorPrefix(r) ==
  CASE r = FetchPlaylist -> "Failed to fetch M3U: "
    [] r = Upload -> "Failed to parse M3U: "
    [] r = Text -> "Failed to parse M3U: "
    [] r = ProxyStream -> "Proxy error: "
    [] r = EpgFetch -> "Failed to fetch EPG: "
    [] OTHER -> "Download failed: "

\* a field read as a string: undefined reads "undefined"
ToStr(v) == IF "str" \in DOMAIN v THEN v.str ELSE <<"undefined">>

\* the same, every route decoding
LocatorDecoded(r, q) == decodeURIComponent(ToStr(q.url))

\* the same, no route decoding
LocatorRaw(r, q) == decodeNothing(ToStr(q.url))

\* the url handed to axios
Locator(r, q) ==
  IF r \in StreamRoutes THEN decodeURIComponent(ToStr(q.url)) ELSE decodeNothing(ToStr(q.url))

\* const name = filename ? decodeURIComponent(filename) : path.basename(decodedUrl) || 'video.mp4'
DownloadName(q) ==
  IF ~Falsy(q.filename) THEN decodeURIComponent(ToStr(q.filename))
  ELSE LET b == basename(Locator(Download, q).value)
       IN decodeNothing(IF b # <<>> THEN b ELSE <<"video.mp4">>)

\* a line terminator in a header value: setHeader throws ERR_INVALID_CHAR
InvalidHeader(v) == \E k \in DOMAIN v : v[k] \in LineTerminators

\* what the synchronous part of a handler throws before it reaches axios or the
\* parser (<<>>: nothing)
SyncThrow(r, q) ==
  CASE r \in StreamRoutes /\ Locator(r, q).threw -> <<"URI malformed">>
    [] r = Download /\ DownloadName(q).threw -> <<"URI malformed">>
    [] r = Text /\ q.content # Undefined /\ "str" \notin DOMAIN q.content
         -> <<"content.split is not a function">>
    [] OTHER -> <<>>

\* res.setHeader(n, v) on the header set h
SetHeader(h, n, v) == {e \in h : e.name # n} \cup {[name |-> n, value |-> v]}

\* res.setHeader(n, v): ERR_HTTP_HEADERS_SENT once a response has started
Header(r, n, v) ==
  IF r.started > 0 THEN [r EXCEPT !.faults = @ + 1]
  ELSE [r EXCEPT !.headers = SetHeader(@, n, v)]

\* res.status(status).json(body): ERR_HTTP_HEADERS_SENT once a response has started
Json(r, status, body) ==
  IF r.started > 0 THEN [r EXCEPT !.faults = @ + 1]
  ELSE [r EXCEPT !.started = 1, !.status = status, !.json = body, !.state = "ended",
                 !.headers = SetHeader(@, "Content-Type", <<"application/json">>)]

\* res.send(data) of a string
Send(r, data) ==
  IF r.started > 0 THEN [r EXCEPT !.faults = @ + 1]
  ELSE [r EXCEPT !.started = 1, !.text = Str(data), !.state = "ended"]

\* the same, the chunk written twice
PipeWriteTwice(bytes, chunk) == Append(Append(bytes, chunk), chunk)

\* what pipe() adds to the response body on a 'data' event
PipeWrite(bytes, chunk) == Append(bytes, chunk)

\* dest.write(chunk) from pipe(): the first write sends the status line and headers
Write(r, chunk) ==
  [r EXCEPT !.started = IF @ = 0 THEN 1 ELSE @, !.bytes = PipeWrite(@, chunk)]

\* dest.end() from pipe() on the source's 'end'
End(r) == [r EXCEPT !.started = IF @ = 0 THEN 1 ELSE @, !.state = "ended"]

\* the same, one more request for the same locator
DispatchTwice(out, locator) == Append(Append(out, locator), locator)

\* axios(...) puts one request on the wire
Dispatch(out, locator) == Append(out, locator)

\* the same, the status of the catch block of the other handlers
CheckFailed500(r, message) == Json(r, 500, [alive |-> FALSE, error |-> message])

\* the catch block of /api/stream/check
CheckFailed(r, message) == Json(r, 200, [alive |-> FALSE, error |-> message])

\* the same, an empty channel list answered in place of the error
CaughtAsEmptyList(rt, r, message) == Json(r, 200, [channels |-> <<>>, count |-> 0])

\* the catch block of a handler
Caught(rt, r, message) ==
  IF rt = StreamCheck THEN CheckFailed(r, message)
  ELSE Json(r, 500, [error |-> <<ErrorPrefix(rt)>> \o message])

\* concatenation of the chunks of a body
RECURSIVE Concat(_)
Concat(chunks) == IF chunks = <<>> THEN <<>> ELSE Head(chunks) \o Concat(Tail(chunks))

\* the lines between the await and pipe() of a stream handler: the headers set,
\* or the message of the exception a setHeader throws
RelayHeaders(rt, q, up, r) ==
  IF rt = ProxyStream
  THEN LET r1 == Header(r, "Content-Type",
                        IF up.contentType # Undefined THEN up.contentType.str
                        ELSE <<"video/mp2t">>)
       IN [threw |-> <<>>, res |-> Header(r1, "Access-Control-Allow-Origin", <<"*">>)]
  ELSE LET name == DownloadName(q).value
           r1 == Header(r, "Content-Disposition",
                        <<"attachment; filename=", QUOTE>> \o name \o <<QUOTE>>)
           r2 == Header(r1, "Content-Type",
                        IF up.contentType # Undefined THEN up.contentType.str
                        ELSE <<"application/octet-stream">>)
           r3 == IF up.contentLength # Undefined
                 THEN Header(r2, "Content-Length", up.contentLength.str) ELSE r2
       IN IF InvalidHeader(name)
          THEN [threw |-> <<"Invalid character in header content">>, res |-> r]
          ELSE [threw |-> <<>>, res |-> Header(r3, "Access-Control-Allow-Origin", <<"*">>)]

(***************************************************************************)
(* The requests and the upstream answers the handlers are run on.          *)
(***************************************************************************)
\* values of the url field: absent, empty, plain, with an escape, malformed
Urls == {Undefined, Str(<<>>), Str(<<"h">>), Str(<<"h", "%2F", "a">>), Str(<<"h", "%">>)}

\* values of the filename field of /api/download
Filenames == {Undefined, Str(<<"f">>), Str(<<"f", "%0A">>), Str(<<"%">>)}

\* a playlist document of one entry
Doc == MetaA \o <<LF>> \o UriU

\* a JSON value that is no string
NotAString == [number |-> 1]

Requests(r) ==
  CASE r = Upload -> {[NoRequest EXCEPT !.file = f] : f \in {Undefined, Str(<<>>), Str(Doc)}}
    [] r = Text ->
         {[NoRequest EXCEPT !.content = c] : c \in {Undefined, Str(<<>>), Str(Doc), NotAString}}
    [] r = Download -> {[NoRequest EXCEPT !.url = u, !.filename = f] : u \in Urls, f \in Filenames}
    [] r = Health -> {NoRequest}
    [] OTHER -> {[NoRequest EXCEPT !.url = u] : u \in Urls}

\* the chunks an upstream body arrives in
Chunks == {MetaA \o <<LF>>, UriU \o <<LF>>}

Bodies == SeqsUpTo(Chunks, MaxBody)

ContentTypes == {Undefined, Str(<<"ct">>)}

ContentLengths == {Undefined, Str(<<"n">>)}

\* err.message of a rejected axios call
Reasons == {<<"connect ECONNREFUSED">>, <<"timeout exceeded">>,
            <<"Request failed with status code 404">>}

\* the documents a handler can hand to the parser
Documents == {Concat(b) : b \in Bodies} \cup {<<>>, Doc}

\* parseM3U on each of them, under each clock
parseM3UOf == [d \in Documents, now \in Clock |-> parseM3U(d, now)]

\* const channels = parseM3U(...); res.json({ channels, count: channels.length })
Parsed(r, data, now) ==
  LET chs == parseM3UOf[data, now]
  IN Json(r, 200, [channels |-> chs, count |-> Len(chs)])

(***************************************************************************)
(* The route handlers, one step per stretch between two awaits or events.   *)
(***************************************************************************)
\* a request reaches its handler
Receive ==
  /\ hpc = "idle"
  /\ \E r \in Routes : \E q \in Requests(r) :
       /\ route' = r
       /\ req' = q
  /\ hpc' = "entered"
  /\ UNCHANGED <<outbound, upstream, res, client>>
  /\ UNCHANGED <<parserVars, favVars>>

\* if (!url) return res.status(400).json({ error: ... })
Reject400 ==
  /\ hpc = "entered"
  /\ Missing(route, req)
  /\ res' = Json(res, 400, [error |-> RequiredMessage(route)])
  /\ hpc' = "finished"
  /\ UNCHANGED <<route, req, outbound, upstream, client>>
  /\ UNCHANGED <<parserVars, favVars>>

\* an exception before axios or the parser is reached, caught
Throw500 ==
  /\ hpc = "entered"
  /\ ~Missing(route, req)
  /\ SyncThrow(route, req) # <<>>
  /\ res' = Caught(route, res, SyncThrow(route, req))
  /\ hpc' = "finished"
  /\ UNCHANGED <<route, req, outbound, upstream, client>>
  /\ UNCHANGED <<parserVars, favVars>>

\* /api/health: res.json({ status: 'ok', time: new Date() })
AnswerHealth ==
  /\ hpc = "entered"
  /\ route = Health
  /\ \E now \in Clock : res' = Json(res, 200, [status |-> "ok", time |-> now])
  /\ hpc' = "finished"
  /\ UNCHANGED <<route, req, outbound, upstream, client>>
  /\ UNCHANGED <<parserVars, favVars>>

\* /api/m3u/upload and /api/m3u/text: parse and answer
ParseLocal ==
  /\ hpc = "entered"
  /\ route \in {Upload, Text}
  /\ ~Missing(route, req)
  /\ SyncThrow(route, req) = <<>>
  /\ \E now \in Clock :
       res' = Parsed(res, IF route = Upload THEN req.file.str ELSE req.content.str, now)
  /\ hpc' = "finished"
  /\ UNCHANGED <<route, req, outbound, upstream, client>>
  /\ UNCHANGED <<parserVars, favVars>>

\* await axios(...): the request goes out
Request ==
  /\ hpc = "entered"
  /\ route \in OutboundRoutes
  /\ ~Missing(route, req)
  /\ req.url # Undefined
  /\ SyncThrow(route, req) = <<>>
  /\ outbound' = Dispatch(outbound, Locator(route, req).value)
  /\ upstream' = [NoUpstream EXCEPT !.state = "pending"]
  /\ hpc' = "awaiting"
  /\ UNCHANGED <<route, req, res, client>>
  /\ UNCHANGED <<parserVars, favVars>>

\* axios called without a usable url (/api/stream/check, which has no guard):
\* the await rejects, nothing goes out
RejectUnsent ==
  /\ hpc = "entered"
  /\ route \in OutboundRoutes
  /\ ~Missing(route, req)
  /\ Falsy(req.url)
  /\ SyncThrow(route, req) = <<>>
  /\ upstream' = [upstream EXCEPT !.error = <<"Invalid URL">>]
  /\ hpc' = "rejected"
  /\ UNCHANGED <<route, req, outbound, res, client>>
  /\ UNCHANGED <<parserVars, favVars>>

\* connection refused, timeout or a status outside 2xx: the await rejects
UpstreamFails ==
  /\ hpc = "awaiting"
  /\ upstream.state = "pending"
  /\ \E reason \in Reasons :
       upstream' = [upstream EXCEPT !.state = "failed", !.error = reason]
  /\ hpc' = "rejected"
  /\ UNCHANGED <<route, req, outbound, res, client>>
  /\ UNCHANGED <<parserVars, favVars>>

\* responseType 'text': the body breaks off while axios buffers it, the await rejects
UpstreamAborts ==
  /\ hpc = "awaiting"
  /\ upstream.state = "pending"
  /\ route \in BufferedRoutes
  /\ \E b \in Bodies : \E k \in 0..(Len(b) - 1) :
       upstream' = [upstream EXCEPT !.state = "failed", !.status = 200, !.body = b,
                                    !.received = SubSeq(b, 1, k), !.error = <<"aborted">>]
  /\ hpc' = "rejected"
  /\ UNCHANGED <<route, req, outbound, res, client>>
  /\ UNCHANGED <<parserVars, favVars>>

\* a 2xx answer: the await returns, with the whole body (text), with no body
\* (head) or with the body still to come (stream)
UpstreamResponds ==
  /\ hpc = "awaiting"
  /\ upstream.state = "pending"
  /\ \E ct \in ContentTypes, cl \in ContentLengths, b \in Bodies :
       upstream' =
         IF route \in StreamRoutes
         THEN [upstream EXCEPT !.state = "open", !.status = 200, !.contentType = ct,
                               !.contentLength = cl, !.body = b]
         ELSE IF route = StreamCheck
         THEN [upstream EXCEPT !.state = "ended", !.status = 200, !.contentType = ct]
         ELSE [upstream EXCEPT !.state = "ended", !.status = 200, !.contentType = ct,
                               !.body = b, !.received = b]
  /\ hpc' = "resolved"
  /\ UNCHANGED <<route, req, outbound, res, client>>
  /\ UNCHANGED <<parserVars, favVars>>

\* the catch block after a rejected await
Catch ==
  /\ hpc = "rejected"
  /\ res' = Caught(route, res, upstream.error)
  /\ hpc' = "finished"
  /\ UNCHANGED <<route, req, outbound, upstream, client>>
  /\ UNCHANGED <<parserVars, favVars>>

\* after the await of /api/m3u/url, /api/epg/fetch and /api/stream/check
Answer ==
  /\ hpc = "resolved"
  /\ route \notin StreamRoutes
  /\ \E now \in Clock :
       res' = CASE route = FetchPlaylist -> Parsed(res, Concat(upstream.received), now)
                [] route = EpgFetch ->
                     Send(Header(res, "Content-Type", <<"application/xml">>),
                          Concat(upstream.received))
                [] OTHER -> Json(res, 200, [alive |-> TRUE,
                                            contentType |-> upstream.contentType,
                                            status |-> upstream.status])
  /\ hpc' = "finished"
  /\ UNCHANGED <<route, req, outbound, upstream, client>>
  /\ UNCHANGED <<parserVars, favVars>>

\* after the await of /api/proxy/stream and /api/download: the headers are set
\* and response.data.pipe(res) starts the flow; a response whose caller has gone
\* takes no write, so the source does not flow.  A setHeader that throws lands
\* in the catch block, the upstream body left unread
StartRelay ==
  /\ hpc = "resolved"
  /\ route \in StreamRoutes
  /\ LET h == RelayHeaders(route, req, upstream, res)
     IN IF h.threw # <<>>
        THEN /\ res' = Caught(route, res, h.threw)
             /\ hpc' = "finished"
             /\ UNCHANGED upstream
        ELSE /\ res' = h.res
             /\ hpc' = "piping"
             /\ upstream' = [upstream EXCEPT !.flowing = (client.state = "connected")]
  /\ UNCHANGED <<route, req, outbound, client>>
  /\ UNCHANGED <<parserVars, favVars>>

\* a 'data' event of the piped source: the chunk is written to res
UpstreamData ==
  /\ hpc = "piping"
  /\ upstream.state = "open"
  /\ upstream.flowing
  /\ Len(upstream.received) < Len(upstream.body)
  /\ LET chunk == upstream.body[Len(upstream.received) + 1]
     IN /\ upstream' = [upstream EXCEPT !.received = Append(@, chunk)]
        /\ res' = Write(res, chunk)
  /\ UNCHANGED <<route, req, hpc, outbound, client>>
  /\ UNCHANGED <<parserVars, favVars>>

\* the 'end' event of the piped source: pipe() ends res
UpstreamEnd ==
  /\ hpc = "piping"
  /\ upstream.state = "open"
  /\ upstream.flowing
  /\ upstream.received = upstream.body
  /\ upstream' = [upstream EXCEPT !.state = "ended", !.flowing = FALSE]
  /\ res' = End(res)
  /\ hpc' = "finished"
  /\ UNCHANGED <<route, req, outbound, client>>
  /\ UNCHANGED <<parserVars, favVars>>

\* the same, the error handed to the catch block of the handler
SourceErrorCaught(rt, r, message, outcome) == Caught(rt, r, message)

\* an 'error' event of the piped source.  No handler of server.js listens for
\* it and pipe() does not forward it: res is left as it is (swallowed), or the
\* event is thrown as an uncaught exception and the process ends (uncaught)
SourceError(rt, r, message, outcome) ==
  IF outcome = "uncaught" THEN [r EXCEPT !.state = "reset"] ELSE r

\* the upstream connection breaks after the await has returned
UpstreamError ==
  /\ hpc \in {"resolved", "piping"}
  /\ upstream.state = "open"
  /\ \E outcome \in {"swallowed", "uncaught"} :
       res' = SourceError(route, res, <<"aborted">>, outcome)
  /\ upstream' = [upstream EXCEPT !.state = "failed", !.flowing = FALSE,
                                  !.error = <<"aborted">>]
  /\ hpc' = "broken"
  /\ UNCHANGED <<route, req, outbound, client>>
  /\ UNCHANGED <<parserVars, favVars>>

\* the bytes written to res reach the caller in order
Deliver ==
  /\ client.state = "connected"
  /\ res.state # "reset"
  /\ Len(client.got) < Len(res.bytes)
  /\ client' = [client EXCEPT !.got = Append(@, res.bytes[Len(client.got) + 1])]
  /\ UNCHANGED <<route, req, hpc, outbound, upstream, res>>
  /\ UNCHANGED <<parserVars, favVars>>

\* the end of the response reaches the caller
DeliverEnd ==
  /\ client.state = "connected"
  /\ res.state = "ended"
  /\ ~client.ended
  /\ Len(client.got) = Len(res.bytes)
  /\ client' = [client EXCEPT !.ended = TRUE]
  /\ UNCHANGED <<route, req, hpc, outbound, upstream, res>>
  /\ UNCHANGED <<parserVars, favVars>>

\* the caller's connection closes: 'close' on res, on which pipe() unpipes
\* the source and the source stops flowing
ClientClose ==
  /\ hpc # "idle"
  /\ client.state = "connected"
  /\ ~client.ended
  /\ client' = [client EXCEPT !.state = "closed"]
  /\ upstream' = [upstream EXCEPT !.flowing = FALSE]
  /\ UNCHANGED <<route, req, hpc, outbound, res>>
  /\ UNCHANGED <<parserVars, favVars>>

RelayNext ==
  \/ Receive \/ Reject400 \/ Throw500 \/ AnswerHealth \/ ParseLocal \/ Request
  \/ RejectUnsent
  \/ UpstreamFails \/ UpstreamAborts \/ UpstreamResponds
  \/ Catch \/ Answer \/ StartRelay
  \/ UpstreamData \/ UpstreamEnd \/ UpstreamError
  \/ Deliver \/ DeliverEnd \/ ClientClose

RelaySpec == Init /\ [][RelayNext]_vars

\* what the runtime guarantees: a handler that can run does run, an await under
\* a timeout settles, a flowing source is read and written bytes are sent.
\* Nothing obliges the upstream to break or the caller to leave
RelayFairSpec ==
  /\ RelaySpec
  /\ WF_vars(Reject400 \/ Throw500 \/ AnswerHealth \/ ParseLocal \/ Request \/ RejectUnsent)
  /\ WF_vars(UpstreamFails \/ UpstreamAborts \/ UpstreamResponds)
  /\ WF_vars(Catch \/ Answer \/ StartRelay)
  /\ WF_vars(UpstreamData \/ UpstreamEnd)
  /\ WF_vars(Deliver \/ DeliverEnd)

(***************************************************************************)
(* What the claims about the route handlers speak of.                       *)
(***************************************************************************)
\* C11: once the caller's connection has closed while the upstream body of a
\* stream relay or download is still open, the upstream read is eventually
\* aborted and the upstream connection released
C11_UpstreamReleased ==
  (hpc = "piping" /\ client.state = "closed" /\ upstream.state = "open")
    ~> (upstream.state # "open")

\* the body of the answer is { error: ... } and nothing else
IsError(j) == DOMAIN j = {"error"}

\* C12: after any failure of the upstream of a playlist fetch, stream relay or
\* download, before or after the body has started, the caller eventually has
\* one error answer and a terminated response
C12_FailureSurfaced ==
  (/\ route \in {FetchPlaylist, ProxyStream, Download}
   /\ upstream.state = "failed"
   /\ client.state = "connected")
    ~> (\/ client.state = "closed"
        \/ /\ res.state = "ended"
           /\ res.started = 1
           /\ res.faults = 0
           /\ IsError(res.json))

\* the caller has nothing of the upstream body and no channel list
NothingRelayed ==
  /\ res.bytes = <<>>
  /\ client.got = <<>>
  /\ res.text = Undefined
  /\ res.json = Undefined \/ IsError(res.json)

\* C13 as stated: whenever the upstream request of a fetch, relay or download
\* has failed, the caller has no byte of the upstream body and no channel
\* records
C13_NoPartial ==
  (route \in OutboundRoutes \ {StreamCheck} /\ upstream.state = "failed") => NothingRelayed

\* C13, amended: that holds when the upstream fails before the await of the
\* handler has returned, which for the buffered routes is every failure, a body
\* breaking off half-way included; the answer is then the 500 error alone
C13_NoPartialBeforeBody ==
  (/\ route \in OutboundRoutes \ {StreamCheck}
   /\ upstream.state = "failed"
   /\ route \in BufferedRoutes \/ upstream.status = 0)
    => /\ NothingRelayed
       /\ hpc = "finished" => (IsError(res.json) /\ res.status = 500 /\ res.started = 1)

\* a body that broke off after its first chunk, answered with the error alone
C13_Witness ==
  /\ route \in BufferedRoutes
  /\ upstream.state = "failed"
  /\ upstream.received # <<>>
  /\ hpc = "finished"
  /\ IsError(res.json)

IsPrefix(s, t) == Len(s) <= Len(t) /\ SubSeq(t, 1, Len(s)) = s

\* C14: in a stream relay or download the bytes delivered to the caller are at
\* every moment a prefix of the bytes received from the upstream; when the
\* body has completed with the caller connected, the response is ended, and
\* once its end has reached the caller the bytes delivered are the whole body
C14_RelayFaithful ==
  route \in StreamRoutes =>
    /\ IsPrefix(client.got, res.bytes)
    /\ IsPrefix(res.bytes, upstream.received)
    /\ IsPrefix(upstream.received, upstream.body)
    /\ (upstream.state = "ended" /\ client.state = "connected") =>
         (res.state = "ended" /\ res.bytes = upstream.body /\ res.status = 200)
    /\ (upstream.state = "ended" /\ client.ended) => client.got = upstream.body

\* a body of two different chunks relayed to its end
C14_Witness ==
  /\ route \in StreamRoutes
  /\ upstream.state = "ended"
  /\ client.ended
  /\ Len(upstream.body) >= 2
  /\ upstream.body[1] # upstream.body[2]
  /\ client.got = upstream.body

\* { alive: true, contentType, status }
IsAlive(j) == DOMAIN j = {"alive", "contentType", "status"} /\ j.alive

\* { alive: false, error } with a message
IsDead(j) == DOMAIN j = {"alive", "error"} /\ ~j.alive /\ j.error # <<>>

\* C15: /api/stream/check answers every request, a missing url, a refused
\* connection, a timeout and a status outside 2xx included, with status 200
\* and one of the two bodies; its handler always has a next step until it has
\* answered, and never writes twice
C15_CheckNeverFails ==
  route = StreamCheck =>
    /\ res.faults = 0
    /\ res.started = 1 => (res.status = 200 /\ (IsAlive(res.json) \/ IsDead(res.json)))
    /\ hpc = "finished" => res.started = 1
    /\ hpc \in {"entered", "rejected", "resolved"} =>
         ENABLED (Request \/ RejectUnsent \/ Catch \/ Answer)
    /\ upstream.state = "failed" => ~IsAlive(res.json)
    /\ hpc \notin {"piping", "broken"}

\* a check without a url, and a check of an unreachable host, both answered
C15_Witness ==
  /\ route = StreamCheck
  /\ hpc = "finished"
  /\ IsDead(res.json)
  /\ req.url = Undefined \/ upstream.state = "failed"

\* C16 as stated: every locator sent upstream is the percent-decoded form of
\* the url of the request
C16_AlwaysDecoded ==
  \A k \in DOMAIN outbound : outbound[k] = decodeURIComponent(ToStr(req.url)).value

\* C16, amended: the stream relay and the download send the percent-decoded
\* url; the playlist fetch, the liveness check and the EPG fetch send the url
\* as the request carries it
C16_DecodedOnStreamRoutes ==
  \A k \in DOMAIN outbound :
    IF route \in StreamRoutes
    THEN outbound[k] = decodeURIComponent(ToStr(req.url)).value
    ELSE outbound[k] = ToStr(req.url)

\* a relay of a url with an escape: what goes out differs from what came in
C16_Witness ==
  /\ route \in StreamRoutes
  /\ outbound # <<>>
  /\ outbound[1] # ToStr(req.url)
  /\ outbound[1] = <<"h", "/", "a">>

\* C17: one inbound request puts at most one request on the wire, whatever the
\* upstream does; a failed one is answered, not repeated
C17_NoRetry ==
  /\ Len(outbound) <= 1
  /\ upstream.state \in {"pending", "open", "ended", "failed"} => Len(outbound) = 1
  /\ route \notin OutboundRoutes => outbound = <<>>

\* a failed fetch answered after its single request
C17_Witness ==
  /\ upstream.state = "failed"
  /\ hpc = "finished"
  /\ res.started = 1
  /\ Len(outbound) = 1

\* the input field the claim names for a route is not in the request
Absent ==
  CASE route \in {FetchPlaylist, ProxyStream, EpgFetch, Download} -> req.url = Undefined
    [] route = Upload -> req.file = Undefined
    [] route = Text -> req.content = Undefined
    [] OTHER -> FALSE

\* the answer carries a channel list: the parser has run
HasChannels(j) == "channels" \in DOMAIN j

\* C18: a request without its required field is answered 4xx with { error },
\* after no outbound request and no parse; an outbound request or a parse
\* happens only with the field present
C18_ValidatedFirst ==
  /\ Absent =>
       /\ outbound = <<>>
       /\ upstream = NoUpstream
       /\ ~HasChannels(res.json)
       /\ res.faults = 0
       /\ hpc = "entered" => ENABLED Reject400
       /\ hpc # "entered" =>
            /\ hpc = "finished"
            /\ res.started = 1
            /\ res.status \in 400..499
            /\ IsError(res.json)
  /\ (outbound # <<>> \/ HasChannels(res.json)) => ~Absent

\* an upload without a file, answered 400
C18_Witness ==
  /\ route = Upload
  /\ req.file = Undefined
  /\ hpc = "finished"
  /\ res.status = 400
  /\ res.json = [error |-> <<"File required">>]

\* the names of the headers set on res
HeaderNames(r) == {e.name : e \in r.headers}

\* C19: a handler starts at most one response and, once it has finished on
\* any of its paths, exactly one; no status, body or header is written after
\* the response has started; an error body of a stream relay or download goes
\* out with no upstream byte and no relay header
C19_OneResponse ==
  /\ res.started <= 1
  /\ res.faults = 0
  /\ hpc = "finished" => res.started = 1
  /\ hpc \in {"idle", "entered", "awaiting", "rejected", "resolved"} => res.started = 0
  /\ (res.json # Undefined \/ res.text # Undefined) => (res.bytes = <<>> /\ res.state = "ended")
  /\ (route \in StreamRoutes /\ IsError(res.json)) =>
       /\ res.bytes = <<>>
       /\ client.got = <<>>
       /\ HeaderNames(res) = {"Content-Type"}

\* a download whose Content-Disposition does not pass setHeader: the upstream
\* has answered, the caller gets the 500 and nothing else
C19_Witness ==
  /\ route = Download
  /\ upstream.state = "open"
  /\ hpc = "finished"
  /\ IsError(res.json)
  /\ res.status = 500

(***************************************************************************)
(* The favorites list of App.js.                                            *)
(***************************************************************************)
\* toggleFavorite calls in one run
MaxToggles == 3

\* the channels the user can toggle: two urls, each under two names
FavUrls == {"u1", "u2"}

FavChannels == [url : FavUrls, name : {"a", "b"}]

\* prev.filter(f => f.url !== channel.url)
Others(prev, channel) == SelectSeq(prev, LAMBDA f : f.url # channel.url)

\* favorites.some(f => f.url === channel?.url)
isFavorite(favs, channel) == \E k \in DOMAIN favs : favs[k].url = channel.url

\* the same, the channel appended whether or not it is there
toggleFavoriteAppend(prev, channel) == Append(prev, channel)

\* the updater handed to setFavorites
toggleFavorite(prev, channel) ==
  LET exists == \E k \in DOMAIN prev : prev[k].url = channel.url
  IN IF exists THEN Others(prev, channel) ELSE Append(prev, channel)

\* no two entries share a url
NoTwoShareUrl(favs) == \A k, j \in DOMAIN favs : k # j => favs[k].url # favs[j].url

\* the lists localStorage can hold at mount
StoredLists == {l \in SeqsUpTo(FavChannels, 2) : NoTwoShareUrl(l)}

\* after mount: useState(() => JSON.parse(localStorage.getItem('iptv_favorites') || '[]'))
FavInit ==
  /\ input = NoInput
  /\ content = <<>>
  /\ lines = <<>>
  /\ i = 0
  /\ current = Null
  /\ channels = <<>>
  /\ pc = "idle"
  /\ RelayIdle
  /\ stored \in StoredLists
  /\ favorites = stored
  /\ loaded = stored
  /\ toggles = [u \in FavUrls |-> 0]

\* toggleFavorite(channel), the re-render and the effect that stores the list
ToggleFavorite ==
  /\ toggles["u1"] + toggles["u2"] < MaxToggles
  /\ \E channel \in FavChannels :
       /\ favorites' = toggleFavorite(favorites, channel)
       /\ toggles' = [toggles EXCEPT ![channel.url] = @ + 1]
  /\ stored' = favorites'
  /\ UNCHANGED loaded
  /\ UNCHANGED <<parserVars, relayVars>>

FavNext == ToggleFavorite

FavSpec == FavInit /\ [][FavNext]_vars

\* C20 as stated: the list has at most one entry per url, and isFavorite(c)
\* is true exactly when c.url has been toggled an odd number of times
C20_OddToggles ==
  /\ NoTwoShareUrl(favorites)
  /\ \A c \in FavChannels : isFavorite(favorites, c) <=> (toggles[c.url] % 2 = 1)

\* at most one entry per url, and isFavorite(c) differs from what it was at
\* mount exactly when c.url has been toggled an odd number of times
FavInv(favs, tg) ==
  /\ NoTwoShareUrl(favs)
  /\ \A c \in FavChannels :
       isFavorite(favs, c) <=> (isFavorite(loaded, c) # (tg[c.url] % 2 = 1))

\* C20, amended: from a list without two entries of one url, every
\* toggleFavorite(c) keeps at most one entry per url, removes the entries of
\* c.url when there is one and appends c when there is none, leaves the other
\* entries as they were and in order, and isFavorite(c) differs from its value
\* at mount exactly when c.url has been toggled an odd number of times
C20_ToggleParity ==
  [][/\ FavInv(favorites, toggles)
     /\ FavInv(favorites', toggles')
     /\ \E c \in FavChannels :
          /\ toggles' = [toggles EXCEPT ![c.url] = @ + 1]
          /\ Others(favorites', c) = Others(favorites, c)
          /\ isFavorite(favorites, c) =>
               (~isFavorite(favorites', c) /\ Len(favorites') = Len(favorites) - 1)
          /\ ~isFavorite(favorites, c) => favorites' = Append(favorites, c)]_vars

\* a channel stored at mount and toggled once: no longer a favorite after an
\* odd number of toggles, the other entry still there
C20_Witness ==
  \E c \in FavChannels :
    /\ isFavorite(loaded, c)
    /\ toggles[c.url] = 1
    /\ ~isFavorite(favorites, c)
    /\ favorites # <<>>

====
